---------------------------- MODULE Spec2Model ----------------------------
(***************************************************************************)
(* A model of gpypi2/enamer.py (class Enamer): the conversion of an        *)
(* upstream Python package name, version and download URI into ebuild      *)
(* variables.                                                              *)
(*                                                                         *)
(* A Python string is modelled as a sequence of one-character strings, so  *)
(* that slicing, searching, replacing and the regular expressions of the   *)
(* source are computed character by character.                             *)
(***************************************************************************)
EXTENDS Integers, Sequences, FiniteSets, TLC

VARIABLES
    keys,    \* iteration order of the suf_matches dict (enamer.py:228,266)
    op,      \* the classmethod last called ("none" before any call)
    args,    \* its arguments
    ret,     \* what it returned
    pc,      \* position inside a running parse_pv call
    loc,     \* parse_pv's local variables while it runs
    tried,   \* the (suffix, regex index) pairs parse_pv has attempted so far
    caller   \* the two list objects the caller passed as my_pn and my_pv
             \* (their contents now), and what its first call returned

vars == <<keys, op, args, ret, pc, loc, tried, caller>>

---------------------------------------------------------------------------
(* Characters and the str methods the source uses.                         *)

\* F applied to the values of its arguments, each computed once, as the
\* arguments of a call and the right-hand side of an assignment are.
Local(v, F(_)) == CHOOSE r \in {F(x) : x \in {v}} : TRUE
Local2(v, w, F(_, _)) == CHOOSE r \in {F(x, y) : x \in {v}, y \in {w}} : TRUE
Local3(v, w, u, F(_, _, _)) ==
    CHOOSE r \in {F(x, y, z) : x \in {v}, y \in {w}, z \in {u}} : TRUE

LowerSeq == <<"a","b","c","d","e","f","g","h","i","j","k","l","m",
              "n","o","p","q","r","s","t","u","v","w","x","y","z">>
UpperSeq == <<"A","B","C","D","E","F","G","H","I","J","K","L","M",
              "N","O","P","Q","R","S","T","U","V","W","X","Y","Z">>

LowerChars == {LowerSeq[i] : i \in DOMAIN LowerSeq}
UpperChars == {UpperSeq[i] : i \in DOMAIN UpperSeq}
DigitChars == {"0","1","2","3","4","5","6","7","8","9"}
SepChars   == {".", "_", "-"}
LetterChars == LowerChars \cup UpperChars

\* str.lower() of one character
LowerChar(c) ==
    IF c \in UpperChars
    THEN LowerSeq[CHOOSE i \in DOMAIN UpperSeq : UpperSeq[i] = c]
    ELSE c

\* str.lower()
Lower(s) == [i \in DOMAIN s |-> LowerChar(s[i])]

\* str.islower(): at least one cased character and no upper-case one
IsLower(s) ==
    /\ \E i \in DOMAIN s : s[i] \in LowerChars
    /\ \A i \in DOMAIN s : s[i] \notin UpperChars

\* s[i:] and s[:i] for i >= 0; as in Python, an i past the end is the end
Clamp(s, i) == IF i > Len(s) THEN Len(s) ELSE IF i < 0 THEN 0 ELSE i
From(s, i) == SubSeq(s, Clamp(s, i) + 1, Len(s))
Upto(s, i) == SubSeq(s, 1, Clamp(s, i))

\* str.startswith / str.endswith
StartsWith(s, t) == Len(t) <= Len(s) /\ SubSeq(s, 1, Len(t)) = t
EndsWith(s, t) ==
    Len(t) <= Len(s) /\ SubSeq(s, Len(s) - Len(t) + 1, Len(s)) = t

\* t occurs in s at 0-based offset i
OccursAt(s, t, i) ==
    i + Len(t) <= Len(s) /\ SubSeq(s, i + 1, i + Len(t)) = t

\* str.find(t, start): the least 0-based offset >= start of t in s, or -1
RECURSIVE FindFrom(_, _, _)
FindFrom(s, t, i) ==
    IF i + Len(t) > Len(s) THEN -1
    ELSE IF OccursAt(s, t, i) THEN i
    ELSE FindFrom(s, t, i + 1)

\* str.find(t)
Find(s, t) == Local2(s, t, LAMBDA x, y : FindFrom(x, y, 0))

\* "t in s"
Contains(s, t) == Find(s, t) >= 0

\* str.rfind(c) for a single character: the greatest 0-based offset, or -1
RFindChar(s, c) ==
    IF \E i \in DOMAIN s : s[i] = c
    THEN (CHOOSE i \in DOMAIN s :
            s[i] = c /\ \A j \in (i + 1)..Len(s) : s[j] # c) - 1
    ELSE -1

\* str.replace(old, new): every non-overlapping occurrence, left to right.
\* With an empty old, Python puts new before every character and at the end.
RECURSIVE ReplaceFrom(_, _, _, _)
ReplaceFrom(s, old, new, i) ==
    IF old = <<>>
    THEN IF i >= Len(s) THEN new
         ELSE new \o <<s[i + 1]>> \o ReplaceFrom(s, old, new, i + 1)
    ELSE IF Len(s) - i < Len(old) THEN From(s, i)
    ELSE IF OccursAt(s, old, i)
         THEN new \o ReplaceFrom(s, old, new, i + Len(old))
         ELSE <<s[i + 1]>> \o ReplaceFrom(s, old, new, i + 1)

Replace(s, old, new) ==
    Local3(s, old, new, LAMBDA x, y, z : ReplaceFrom(x, y, z, 0))

\* str.split(c) on a single character: a non-empty sequence of strings
RECURSIVE SplitFrom(_, _, _)
SplitFrom(s, c, i) ==
    Local(FindFrom(s, <<c>>, i), LAMBDA j :
        IF j < 0 THEN <<From(s, i)>>
        ELSE <<SubSeq(s, i + 1, j)>> \o SplitFrom(s, c, j + 1))

Split(s, c) == Local(s, LAMBDA x : SplitFrom(x, c, 0))

\* c.join(parts)
RECURSIVE Join(_, _)
Join(parts, c) ==
    IF parts = <<>> THEN <<>>
    ELSE IF Len(parts) = 1 THEN parts[1]
    ELSE parts[1] \o <<c>> \o Join(Tail(parts), c)

\* The length of the longest run of characters of class cls in s that
\* starts at 0-based offset i (a greedy [cls]* of the re module).
RECURSIVE Run(_, _, _)
Run(s, i, cls) ==
    IF i < Len(s) /\ s[i + 1] \in cls THEN 1 + Run(s, i + 1, cls) ELSE 0

\* The concatenation of a sequence of strings
RECURSIVE Concat(_)
Concat(ss) == IF ss = <<>> THEN <<>> ELSE Head(ss) \o Concat(Tail(ss))

\* All sequences of at most n elements of S
RECURSIVE SeqsUpTo(_, _)
SeqsUpTo(S, n) ==
    IF n = 0 THEN {<<>>}
    ELSE LET shorter == SeqsUpTo(S, n - 1)
         IN  shorter \cup {Append(q, x) : q \in shorter, x \in S}

---------------------------------------------------------------------------
(* Enamer.strip_ext (enamer.py:64-87).                                     *)

valid_extensions ==
    << <<".","z","i","p">>,
       <<".","t","g","z">>,
       <<".","t","a","r",".","g","z">>,
       <<".","t","a","r",".","b","z","2">>,
       <<".","t","b","z","2">> >>

\* for ext in exts: if path.endswith(ext): return path[:-len(ext)]
RECURSIVE StripFirst(_, _)
StripFirst(path, exts) ==
    IF exts = <<>> THEN path
    ELSE IF EndsWith(path, Head(exts))
         THEN Upto(path, Len(path) - Len(Head(exts)))
         ELSE StripFirst(path, Tail(exts))

\* A slip the list invites: ".gz" listed where ".tar.gz" belongs.
strip_ext_gz(path) ==
    Local(path, LAMBDA x :
        StripFirst(x, [valid_extensions EXCEPT ![3] = <<".","g","z">>]))

strip_ext(path) == Local(path, LAMBDA x : StripFirst(x, valid_extensions))

---------------------------------------------------------------------------
(* Enamer.parse_pn (enamer.py:299-343).                                    *)

\* The two substitution rules parse_pn records, '${PN/-/.}' and '${PN/-/ }'
PnDotRule   == <<"$","{","P","N","/","-","/",".","}">>
PnSpaceRule == <<"$","{","P","N","/","-","/"," ","}">>

\* lines 319-324
PnLower(pn, my_pn) ==
    IF ~IsLower(pn)
    THEN [pn |-> Lower(pn), my_pn |-> IF my_pn = <<>> THEN <<pn>> ELSE my_pn]
    ELSE [pn |-> pn, my_pn |-> my_pn]

\* lines 326-329
PnDots(r) ==
    IF Contains(r.pn, <<".">>)
    THEN [pn |-> Replace(r.pn, <<".">>, <<"-">>), my_pn |-> Append(r.my_pn, PnDotRule)]
    ELSE r

\* lines 331-334
PnSpaces(r) ==
    IF Contains(r.pn, <<" ">>)
    THEN [pn |-> Replace(r.pn, <<" ">>, <<"-">>), my_pn |-> Append(r.my_pn, PnSpaceRule)]
    ELSE r

\* Returns (pn, my_pn); my_pn = <<>> stands for both None and [].
parse_pn(pn, my_pn) ==
    Local2(pn, my_pn, LAMBDA x, y :
        Local(PnLower(x, y), LAMBDA a : Local(PnDots(a), PnSpaces)))

\* "x = x or []" (lines 249-250, 318, 449-450) followed by x.append(...)
\* only: a list the caller passed non-empty is the very object appended to
\* and holds what x holds in the end; for an empty one (or None) a new list
\* is made and the caller's stays as it was.
HeldAfter(before, after) == IF before = <<>> THEN before ELSE after

---------------------------------------------------------------------------
(* The regular expressions of Enamer.parse_pv (enamer.py:224-248), all     *)
(* compiled with re.I.  A match is [ok, g1, g2, g3]: match.group(1..3).    *)

NoMatch == [ok |-> FALSE, g1 |-> <<>>, g2 |-> <<>>, g3 |-> <<>>]

\* t as a whole has the shape  [._-]* WORD [._-]* [0-9]* :  the words are
\* letters only, so WORD is the whole letter run that follows the leading
\* separators.  sep2: the second [._-]* is present; plus: [0-9]+ not [0-9]*.
WordTail(t, words, sep2, plus) ==
    LET a == Run(t, 0, SepChars)
        b == Run(t, a, LetterChars)
        c == IF sep2 THEN Run(t, a + b, SepChars) ELSE 0
        d == Run(t, a + b + c, DigitChars)
    IN  [ok |-> /\ Lower(SubSeq(t, a + 1, a + b)) \in words
                /\ a + b + c + d = Len(t)
                /\ (plus => d > 0),
         g2 |-> Upto(t, a + b + c),
         g3 |-> From(t, a + b + c)]

\* t as a whole has the shape  [._-]* dev [._-]* r? [0-9]+
DevTail(t) ==
    LET a == Run(t, 0, SepChars)
        isdev == /\ a + 3 <= Len(t)
                 /\ Lower(SubSeq(t, a + 1, a + 3)) = <<"d","e","v">>
        c == Run(t, a + 3, SepChars)
        r == IF a + 3 + c < Len(t) /\ LowerChar(t[a + 3 + c + 1]) = "r"
             THEN 1 ELSE 0
        d == Run(t, a + 3 + c + r, DigitChars)
    IN  [ok |-> isdev /\ d > 0 /\ a + 3 + c + r + d = Len(t),
         g2 |-> Upto(t, a + 3 + c + r),
         g3 |-> From(t, a + 3 + c + r)]

\* The tail shape a pattern asks for
TailOf(pat, t) ==
    Local(t, LAMBDA x :
        IF pat.shape = "dev" THEN DevTail(x)
        ELSE WordTail(x, pat.words, pat.sep2, pat.plus))

\* r'(.*?)(TAIL)$' : the lazy first group takes the shortest prefix, of
\* length i or more, after which the rest of s has the tail shape.
RECURSIVE LazyFrom(_, _, _)
LazyFrom(pat, s, i) ==
    IF i > Len(s) THEN NoMatch
    ELSE Local(TailOf(pat, From(s, i)), LAMBDA m :
             IF m.ok
             THEN [ok |-> TRUE, g1 |-> Upto(s, i), g2 |-> m.g2, g3 |-> m.g3]
             ELSE LazyFrom(pat, s, i + 1))

LazyMatch(pat, s) == Local(s, LAMBDA x : LazyFrom(pat, x, 0))

\* The length of the longest run of characters of class cls in s that
\* ends at 0-based offset i (exclusive).
RECURSIVE RunBack(_, _, _)
RunBack(s, i, cls) ==
    IF i > 0 /\ s[i] \in cls THEN 1 + RunBack(s, i - 1, cls) ELSE 0

\* r'(.*[^a-z])(X[._-]*)([0-9]*)$' : greedy first group that must end in a
\* character that is no letter (re.I also excludes A-Z), then the letter
\* pat.ch, optional separators (sep2) and the trailing digits.
AnchoredMatch(pat, s) ==
    LET d == RunBack(s, Len(s), DigitChars)
        c == IF pat.sep2 THEN RunBack(s, Len(s) - d, SepChars) ELSE 0
        x == Len(s) - d - c          \* 1-based position of the letter
    IN  IF /\ x >= 2
           /\ LowerChar(s[x]) = pat.ch
           /\ s[x - 1] \notin LetterChars
           /\ (pat.plus => d > 0)
        THEN [ok |-> TRUE, g1 |-> Upto(s, x - 1),
              g2 |-> SubSeq(s, x, x + c), g3 |-> From(s, x + c)]
        ELSE NoMatch

\* re.compile(regex, re.I).match(s)
ReMatch(pat, s) ==
    IF pat.shape = "anchored" THEN AnchoredMatch(pat, s) ELSE LazyMatch(pat, s)

Words(pat_words, sep2, plus) ==
    [shape |-> "lazy", words |-> pat_words, ch |-> "", sep2 |-> sep2, plus |-> plus]
DevPat == [shape |-> "dev", words |-> {}, ch |-> "", sep2 |-> TRUE, plus |-> TRUE]
Anchored(ch, sep2, plus) ==
    [shape |-> "anchored", words |-> {}, ch |-> ch, sep2 |-> sep2, plus |-> plus]

\* revision_suffixes: r'(.*?)([\._-]*(?:r|patch|p)[\._-]*)([0-9]*)$', .search
revision_suffixes ==
    Words({<<"r">>, <<"p","a","t","c","h">>, <<"p">>}, TRUE, FALSE)

\* The portage suffixes, the keys of suf_matches
SufPre   == <<"_","p","r","e">>
SufAlpha == <<"_","a","l","p","h","a">>
SufBeta  == <<"_","b","e","t","a">>
SufRc    == <<"_","r","c">>
Suffixes == {SufPre, SufAlpha, SufBeta, SufRc}

\* suf_matches[this_suf]: its regexes in listed order
suf_matches(this_suf) ==
    CASE this_suf = SufPre ->
           << DevPat,
              Words({<<"p","r","e">>, <<"p","r","e","v","i","e","w">>}, TRUE, FALSE) >>
      [] this_suf = SufAlpha ->
           << Words({<<"a","l","p","h","a">>, <<"t","e","s","t">>}, TRUE, FALSE),
              Words({<<"a">>}, TRUE, FALSE),
              Anchored("a", FALSE, FALSE) >>
      [] this_suf = SufBeta ->
           << Words({<<"b","e","t","a">>}, TRUE, FALSE),
              Words({<<"b">>}, FALSE, FALSE),
              Anchored("b", FALSE, FALSE) >>
      [] this_suf = SufRc ->
           << Words({<<"r","c">>}, TRUE, FALSE),
              Words({<<"c">>}, TRUE, FALSE),
              Anchored("c", TRUE, TRUE) >>

\* bad_suffixes: r'((?:[._-]*)(?:dev|devel|final|stable|snapshot)$)', .search:
\* the leftmost offset from which the rest of s is separators and one word.
BadWords == { <<"d","e","v">>, <<"d","e","v","e","l">>, <<"f","i","n","a","l">>,
              <<"s","t","a","b","l","e">>, <<"s","n","a","p","s","h","o","t">> }

BadTail(t) == Lower(From(t, Run(t, 0, SepChars))) \in BadWords

RECURSIVE BadFrom(_, _)
BadFrom(s, i) ==
    IF i > Len(s) THEN NoMatch
    ELSE IF BadTail(From(s, i))
         THEN [ok |-> TRUE, g1 |-> From(s, i), g2 |-> <<>>, g3 |-> <<>>]
         ELSE BadFrom(s, i + 1)

\* match.groups()[0] is g1
bad_suffixes(s) == Local(s, LAMBDA x : BadFrom(x, 0))

---------------------------------------------------------------------------
(* Enamer.parse_pv (enamer.py:164-297).                                    *)

\* "%d" % n for n >= 0
RECURSIVE Dec(_)
Dec(n) ==
    LET digit == <<"0","1","2","3","4","5","6","7","8","9">>[(n % 10) + 1]
    IN  IF n < 10 THEN <<digit>> ELSE Dec(n \div 10) \o <<digit>>

\* "${PV: -%d}%s" % (len(additional_version), replace_me + rev)   (line 261)
RevRule(additional_version, replace_me, rev) ==
    <<"$","{","P","V",":"," ","-">> \o Dec(Len(additional_version))
        \o <<"}">> \o replace_me \o rev

\* "${PV/%s/%s}" % (portage_suffix, replace_me)                   (line 283)
SufRule(portage_suffix, replace_me) ==
    <<"$","{","P","V","/">> \o portage_suffix \o <<"/">> \o replace_me \o <<"}">>

\* "${PV}%s" % suffix                                             (line 290)
BadRule(suffix) == <<"$","{","P","V","}">> \o suffix

\* The (this_suf, regex index) pairs in the order the two nested loops of
\* lines 266-275 reach them, for a dict that iterates as order.
RECURSIVE Attempts(_)
Attempts(order) ==
    IF order = <<>> THEN <<>>
    ELSE [i \in 1..Len(suf_matches(Head(order))) |-> <<Head(order), i>>]
            \o Attempts(Tail(order))

AttemptMatch(at, s) == ReMatch(suf_matches(at[1])[at[2]], s)

\* The loops of lines 266-275 run to their end: the first attempt that
\* matches, with its suffix; no attempt follows it.
RECURSIVE FirstSuf(_, _)
FirstSuf(ats, s) ==
    IF ats = <<>> THEN [m |-> NoMatch, suf |-> <<>>]
    ELSE Local(AttemptMatch(Head(ats), s), LAMBDA m :
             IF m.ok THEN [m |-> m, suf |-> Head(ats)[1]]
             ELSE FirstSuf(Tail(ats), s))

\* Lines 255-263: the revision suffix.  Gives the locals after the block.
PvRevision(up_pv, pv, my_pv) ==
    Local(LazyMatch(revision_suffixes, up_pv), LAMBDA rev_match :
        IF rev_match.ok
        THEN [up_pv |-> rev_match.g1, pv |-> rev_match.g1,
              additional_version |-> <<".">> \o rev_match.g3,
              my_pv |-> Append(my_pv,
                  RevRule(<<".">> \o rev_match.g3, rev_match.g2, rev_match.g3))]
        ELSE [up_pv |-> up_pv, pv |-> pv,
              additional_version |-> <<>>, my_pv |-> my_pv])

\* Lines 277-293 with the result rs of the loops: pv and my_pv at line 294.
PvCompose(l, rs) ==
    Local(bad_suffixes(l.up_pv), LAMBDA match :
        LET pv == IF rs.m.ok THEN rs.m.g1 \o rs.suf \o rs.m.g3       \* 282
                  ELSE IF match.ok
                       THEN Upto(l.up_pv, Len(l.up_pv) - Len(match.g1))  \* 291
                       ELSE l.pv
            my_pv == IF rs.m.ok THEN Append(l.my_pv, SufRule(rs.suf, rs.m.g2))
                     ELSE IF match.ok THEN Append(l.my_pv, BadRule(match.g1))
                          ELSE l.my_pv
        IN  [pv |-> pv \o l.additional_version, my_pv |-> my_pv])   \* 293

\* The whole call; order is the iteration order of suf_matches.keys().
parse_pv(order, up_pn, up_pv, pn, pv, my_pn, my_pv) ==
    Local(PvRevision(up_pv, pv, my_pv), LAMBDA l :
    Local(FirstSuf(Attempts(order), l.up_pv), LAMBDA rs :
    Local(PvCompose(l, rs), LAMBDA v :
    Local(parse_pn(up_pn, my_pn), LAMBDA n :                         \* 296
        [pn |-> n.pn, pv |-> v.pv, my_pn |-> n.my_pn, my_pv |-> v.my_pv]))))

---------------------------------------------------------------------------
(* The collaborators enamer.py imports: portage's pkgsplit and isvalidatom *)
(* (lines 17-25) and urlparse (line 10).  Their code is not part of the    *)
(* repository; they are modelled from their contracts in spec.md section 6 *)
(* and 4.1, with portage's version grammar: dot-separated numbers, an     *)
(* optional lower-case letter, then any number of _pre, _p, _beta, _alpha  *)
(* or _rc suffixes, each with optional digits.                             *)

VerSuffixWords == { <<"p","r","e">>, <<"p">>, <<"b","e","t","a">>,
                    <<"a","l","p","h","a">>, <<"r","c">> }

\* i is the 0-based offset in v reached after \d+(\.\d+)* ... from offset i
RECURSIVE VerDots(_, _)
VerDots(v, i) ==
    IF i < Len(v) /\ v[i + 1] = "." /\ Run(v, i + 1, DigitChars) > 0
    THEN VerDots(v, i + 1 + Run(v, i + 1, DigitChars))
    ELSE i

RECURSIVE VerSuffixes(_, _)
VerSuffixes(v, i) ==
    IF i < Len(v) /\ v[i + 1] = "_"
    THEN LET b == Run(v, i + 1, LowerChars)
             d == Run(v, i + 1 + b, DigitChars)
         IN  IF SubSeq(v, i + 2, i + 1 + b) \in VerSuffixWords
             THEN VerSuffixes(v, i + 1 + b + d)
             ELSE i
    ELSE i

\* The version grammar of the package manager
IsVersion(v) ==
    LET d1 == Run(v, 0, DigitChars)
        i2 == VerDots(v, d1)
        i3 == IF i2 < Len(v) /\ v[i2 + 1] \in LowerChars THEN i2 + 1 ELSE i2
    IN  d1 > 0 /\ VerSuffixes(v, i3) = Len(v)

\* A trailing revision -rN: N is digits
IsRevision(r) ==
    Len(r) >= 2 /\ r[1] = "r" /\ Run(r, 1, DigitChars) = Len(r) - 1

\* Name characters: [\w+] first, [\w+-] after
NameChars == LowerChars \cup UpperChars \cup DigitChars \cup {"_", "+"}
IsPkgName(n) ==
    /\ n # <<>>
    /\ n[1] \in NameChars
    /\ \A i \in DOMAIN n : n[i] \in NameChars \cup {"-"}

\* name-version[-rN] read from the right; ok is FALSE where there is none
CpvParts(s) ==
    Local(Split(s, "-"), LAMBDA parts :
        LET n      == Len(parts)
            hasrev == n >= 3 /\ IsRevision(parts[n]) /\ IsVersion(parts[n - 1])
            vpos   == IF hasrev THEN n - 1 ELSE n
        IN  IF n >= 2 /\ IsVersion(parts[vpos])
            THEN [ok |-> TRUE, pn |-> Join(SubSeq(parts, 1, vpos - 1), "-"),
                  pv |-> parts[vpos],
                  rev |-> IF hasrev THEN parts[n] ELSE <<"r","0">>]
            ELSE [ok |-> FALSE, pn |-> <<>>, pv |-> <<>>, rev |-> <<>>])

\* A name may not itself end in -version[-rN]
NameEndsInVersion(n) ==
    Local(CpvParts(n), LAMBDA c : c.ok /\ IsPkgName(c.pn))

\* portage.pkgsplit(mypkg): (pn, pv, rev), or None (ok = FALSE)
pkgsplit(mypkg) ==
    Local(CpvParts(mypkg), LAMBDA c :
        IF c.ok /\ IsPkgName(c.pn) /\ ~NameEndsInVersion(c.pn)
        THEN c
        ELSE [ok |-> FALSE, pn |-> <<>>, pv |-> <<>>, rev |-> <<>>])

AtomPrefix == <<"=","d","e","v","-","p","y","t","h","o","n","/">>

\* portage_dep.isvalidatom("=dev-python/<name>-<version>"); spec.md section 6
\* has the validator reject upper case in a name.
isvalidatom(atom) ==
    Local(atom, LAMBDA a :
        /\ StartsWith(a, AtomPrefix)
        /\ Local(pkgsplit(From(a, Len(AtomPrefix))), LAMBDA c :
               c.ok /\ \A i \in DOMAIN c.pn : c.pn[i] \notin UpperChars))

\* urlparse.urlparse(uri) for scheme:[//netloc]path[;params][?query][#fragment]
SchemeChars == LowerChars \cup UpperChars \cup DigitChars \cup {"+", "-", "."}
UsesParams == { <<"h","t","t","p">>, <<"h","t","t","p","s">>, <<"f","t","p">>, <<>> }

\* The least offset >= start of a character of cls in s, or len(s)
RECURSIVE FindAny(_, _, _)
FindAny(s, start, cls) ==
    IF start >= Len(s) THEN Len(s)
    ELSE IF s[start + 1] \in cls THEN start ELSE FindAny(s, start + 1, cls)

\* The scheme, lower-cased, and what follows its colon: the text before the
\* first colon is a scheme when it is made of scheme characters and what
\* follows is not a port number.
UrlScheme(url) ==
    Local(Find(url, <<":">>), LAMBDA i :
        IF /\ i > 0
           /\ \A k \in 1..i : url[k] \in SchemeChars
           /\ (i + 1 = Len(url) \/ \E k \in (i + 2)..Len(url) : url[k] \notin DigitChars)
        THEN [scheme |-> Lower(Upto(url, i)), rest |-> From(url, i + 1)]
        ELSE [scheme |-> <<>>, rest |-> url])

\* //netloc up to the first of / ? #
UrlNetloc(url) ==
    IF StartsWith(url, <<"/","/">>)
    THEN Local(FindAny(url, 2, {"/", "?", "#"}), LAMBDA delim :
             [netloc |-> SubSeq(url, 3, delim), rest |-> From(url, delim)])
    ELSE [netloc |-> <<>>, rest |-> url]

\* url cut at the first c: what is before it and what is after it
UrlCut(url, c) ==
    Local(Find(url, <<c>>), LAMBDA h :
        IF h >= 0 THEN [head |-> Upto(url, h), tail |-> From(url, h + 1)]
        ELSE [head |-> url, tail |-> <<>>])

\* ;params of the last path segment, for the schemes that use them
UrlParams(scheme, url) ==
    Local(RFindChar(url, "/"), LAMBDA slash :
    Local(IF slash >= 0
          THEN Local(Find(From(url, slash), <<";">>), LAMBDA r :
                   IF r < 0 THEN -1 ELSE r + slash)
          ELSE Find(url, <<";">>), LAMBDA semi :
        IF scheme \in UsesParams /\ semi >= 0
        THEN [path |-> Upto(url, semi), params |-> From(url, semi + 1)]
        ELSE [path |-> url, params |-> <<>>]))

urlparse(uri) ==
    Local(uri, LAMBDA url :
    Local(UrlScheme(url), LAMBDA s :
    Local(UrlNetloc(s.rest), LAMBDA n :
    Local(UrlCut(n.rest, "#"), LAMBDA f :
    Local(UrlCut(f.head, "?"), LAMBDA q :
    Local(UrlParams(s.scheme, q.head), LAMBDA p :
        [scheme |-> s.scheme, netloc |-> n.netloc,
         path |-> p.path, params |-> p.params,
         query |-> q.tail, fragment |-> f.tail]))))))

\* urlparse.urlunparse(skinned_uri[:3] + ('',)*3)
urlunparse3(scheme, netloc, path) ==
    LET url == IF netloc # <<>>
               THEN <<"/","/">> \o netloc
                        \o (IF path # <<>> /\ path[1] # "/" THEN <<"/">> ELSE <<>>)
                        \o path
               ELSE path
    IN  IF scheme # <<>> THEN scheme \o <<":">> \o url ELSE url

---------------------------------------------------------------------------
(* URI helpers of Enamer (enamer.py:44-145, 345-362, 562-578).             *)

VarP    == <<"$","{","P","}">>
VarMyP  == <<"$","{","M","Y","_","P","}">>
VarPN   == <<"$","{","P","N","}">>
VarPV   == <<"$","{","P","V","}">>
VarMyPN == <<"$","{","M","Y","_","P","N","}">>
VarMyPV == <<"$","{","M","Y","_","P","V","}">>

Last(q) == q[Len(q)]

\* lines 60-62
get_filename(uri) ==
    Local(Split(urlparse(uri).path, "/"), LAMBDA path : strip_ext(Last(path)))

\* lines 106-107
is_valid_uri(uri) ==
    \/ StartsWith(uri, <<"h","t","t","p",":">>)
    \/ StartsWith(uri, <<"f","t","p",":">>)
    \/ StartsWith(uri, <<"m","i","r","r","o","r",":">>)
    \/ StartsWith(uri, <<"s","v","n",":">>)

\* lines 134-135
split_uri(uri) == pkgsplit(get_filename(uri))

\* lines 112-115: the split, or None (ok = FALSE)
is_good_filename(uri) ==
    Local(split_uri(uri), LAMBDA psplit :
        IF is_valid_uri(uri) /\ psplit.ok /\ IsLower(psplit.pn)
        THEN psplit
        ELSE [ok |-> FALSE, pn |-> <<>>, pv |-> <<>>, rev |-> <<>>])

\* lines 140-145
get_components(uri) ==
    Local(split_uri(uri), LAMBDA psplit :
        [uri_out |-> Replace(uri, get_filename(uri), VarP),
         pn |-> Lower(psplit.pn), pv |-> psplit.pv])

\* lines 150-162
guess_components(my_p) ==
    Local(pkgsplit(Replace(my_p, <<"_">>, <<"-">>)), LAMBDA psplit :
        IF psplit.ok THEN [pn |-> psplit.pn, pv |-> psplit.pv]
        ELSE [pn |-> <<>>, pv |-> <<>>])

\* lines 361-362
sanitize_uri(uri) ==
    Local(urlparse(uri), LAMBDA u : urlunparse3(u.scheme, u.netloc, u.path))

\* lines 576-578
get_my_p(uri) ==
    Local(get_filename(uri), LAMBDA my_p :
        [src_uri |-> Replace(uri, my_p, VarMyP), my_p |-> my_p])

\* lines 552-553: for one_my_pn in my_pn: my_p = my_p.replace(one_my_pn, ...)
RECURSIVE ReplaceEach(_, _, _)
ReplaceEach(my_p, rules, new) ==
    IF rules = <<>> THEN my_p
    ELSE ReplaceEach(Replace(my_p, Head(rules), new), Tail(rules), new)

\* lines 545-558, the filename is not a good one
GuessSrcUri(uri, my_pn) ==
    Local(get_my_p(uri), LAMBDA g :
    Local(guess_components(g.my_p), LAMBDA c :
    Local(parse_pn(c.pn, <<>>), LAMBDA n :
        IF c.pn # <<>> /\ c.pv # <<>>
        THEN [src_uri |-> g.src_uri,
              \* line 551: a non-empty list never equals the string pn
              my_p |-> Replace(IF n.my_pn # <<>>
                               THEN ReplaceEach(g.my_p, n.my_pn, VarMyPN)
                               ELSE Replace(g.my_p, n.pn, VarPN),
                               c.pv, VarPV),
              my_pn |-> n.my_pn, my_p_raw |-> g.my_p]
        ELSE [src_uri |-> g.src_uri, my_p |-> g.my_p,
              my_pn |-> my_pn, my_p_raw |-> <<>>])))

\* Enamer._get_src_uri (lines 539-560)
get_src_uri(uri, my_pn) ==
    IF is_good_filename(uri).ok
    THEN [src_uri |-> get_components(uri).uri_out, my_p |-> <<>>,
          my_pn |-> my_pn, my_p_raw |-> <<>>]
    ELSE GuessSrcUri(uri, my_pn)

---------------------------------------------------------------------------
(* Enamer.get_vars (enamer.py:364-536).                                    *)

Raised == [raised |-> TRUE, pn |-> <<>>, pv |-> <<>>, p |-> <<>>,
           my_p |-> <<>>, my_pn |-> <<>>, my_pv |-> <<>>,
           my_p_raw |-> <<>>, src_uri |-> <<>>]

\* lines 458-470
InvalidVersion(up_pn, up_pv) ==
    Local(Last(Split(up_pv, "-")), LAMBDA seg :
        \/ seg # <<>> /\ seg[1] = "r"
        \/ ~isvalidatom(AtomPrefix \o up_pn \o <<"-">> \o up_pv))

\* lines 472-474: parse_pv is called for an invalid upstream version only
MaybeParsePv(order, up_pn, up_pv, pn, pv, my_pn, my_pv) ==
    IF InvalidVersion(up_pn, up_pv)
    THEN parse_pv(order, up_pn, up_pv, pn, pv, my_pn, my_pv)
    ELSE [pn |-> pn, pv |-> pv, my_pn |-> my_pn, my_pv |-> my_pv]

\* lines 476-495: pn and pv after the upstream fallbacks
ChoosePnPv(uri, up_pn, up_pv, pn, pv) ==
    IF pn = <<>> /\ pv = <<>>
    THEN Local(split_uri(uri), LAMBDA parts :
             IF parts.ok THEN [pn |-> parts.pn, pv |-> parts.pv]
             ELSE [pn |-> up_pn, pv |-> up_pv])
    ELSE IF pn # <<>> /\ pv = <<>> THEN [pn |-> pn, pv |-> up_pv]
    ELSE IF pn = <<>> /\ pv # <<>> THEN [pn |-> Lower(up_pn), pv |-> pv]
    ELSE [pn |-> pn, pv |-> pv]

\* The lists my_pn and my_pv name after line 497, the last line that
\* appends to them: line 512 binds my_pn to a new list, line 520 gets the
\* list of a parse_pn call without my_pn (line 550), and a raise at 505
\* comes after the appends.
get_vars_lists(order, uri_in, up_pn, up_pv, pn_in, pv_in, my_pn_in, my_pv_in) ==
    Local(sanitize_uri(uri_in), LAMBDA uri :
    Local(MaybeParsePv(order, up_pn, up_pv, pn_in, pv_in, my_pn_in, my_pv_in), LAMBDA a :
    Local(ChoosePnPv(uri, up_pn, up_pv, a.pn, a.pv), LAMBDA b :
    Local(parse_pn(b.pn, a.my_pn), LAMBDA n :
        [my_pn |-> n.my_pn, my_pv |-> a.my_pv]))))

\* lines 509-521: src_uri, my_p, my_pn and my_p_raw for a valid p
SrcUriFor(uri, p, my_pn, my_pv) ==
    Local(get_my_p(uri), LAMBDA g :
        IF g.my_p = p                                                \* 511
        THEN [src_uri |-> Replace(g.src_uri, VarMyP, VarP), my_p |-> <<>>,
              my_pn |-> <<>>, my_p_raw |-> <<>>]
        ELSE IF my_pn # <<>> \/ my_pv # <<>>                         \* 515
        THEN [src_uri |-> g.src_uri, my_p |-> <<>>,
              my_pn |-> my_pn, my_p_raw |-> g.my_p]
        ELSE get_src_uri(uri, my_pn))                                \* 520

\* lines 509-536 for a valid p: the record returned
Finish(uri, pn, pv, p, my_pn, my_pv) ==
    Local(SrcUriFor(uri, p, my_pn, my_pv), LAMBDA r :
        [raised |-> FALSE, pn |-> pn, pv |-> pv, p |-> p,
         my_p |-> IF r.my_pn # <<>> \/ my_pv # <<>>                  \* 523
                  THEN (IF r.my_pn # <<>> THEN VarMyPN ELSE VarPN) \o <<"-">>
                          \o (IF my_pv # <<>> THEN VarMyPV ELSE VarPV)
                  ELSE r.my_p,
         my_pn |-> r.my_pn, my_pv |-> my_pv, my_p_raw |-> r.my_p_raw,
         src_uri |-> r.src_uri])

\* A slip: the validity check of lines 503-507 left out.
get_vars_unchecked(order, uri_in, up_pn, up_pv, pn_in, pv_in, my_pn_in, my_pv_in) ==
    Local(sanitize_uri(uri_in), LAMBDA uri :
    Local(MaybeParsePv(order, up_pn, up_pv, pn_in, pv_in, my_pn_in, my_pv_in),
          LAMBDA a :
    Local(ChoosePnPv(uri, up_pn, up_pv, a.pn, a.pv), LAMBDA b :
    Local(parse_pn(b.pn, a.my_pn), LAMBDA n :
    Local(n.pn \o <<"-">> \o b.pv, LAMBDA p :
        Finish(uri, n.pn, b.pv, p, n.my_pn, a.my_pv))))))

\* A slip: line 514, the change of ${MY_P} into ${P}, left out.
get_vars_keepmyp(order, uri_in, up_pn, up_pv, pn_in, pv_in, my_pn_in, my_pv_in) ==
    Local(get_vars_unchecked(order, uri_in, up_pn, up_pv, pn_in, pv_in,
                             my_pn_in, my_pv_in), LAMBDA r :
    Local(get_my_p(sanitize_uri(uri_in)), LAMBDA g :
        IF ~isvalidatom(AtomPrefix \o r.p) THEN Raised
        ELSE IF g.my_p = r.p THEN [r EXCEPT !.src_uri = g.src_uri]
        ELSE r))

\* order is the iteration order of suf_matches.keys(); an empty my_pn_in or
\* my_pv_in stands for both None and [].
get_vars(order, uri_in, up_pn, up_pv, pn_in, pv_in, my_pn_in, my_pv_in) ==
    Local(sanitize_uri(uri_in), LAMBDA uri :                         \* 453
    Local(MaybeParsePv(order, up_pn, up_pv, pn_in, pv_in, my_pn_in, my_pv_in),
          LAMBDA a :
    Local(ChoosePnPv(uri, up_pn, up_pv, a.pn, a.pv), LAMBDA b :
    Local(parse_pn(b.pn, a.my_pn), LAMBDA n :                        \* 497
    Local(n.pn \o <<"-">> \o b.pv, LAMBDA p :                        \* 499
        IF ~isvalidatom(AtomPrefix \o p)                             \* 503-507
        THEN Raised
        ELSE Finish(uri, n.pn, b.pv, p, n.my_pn, a.my_pv))))))

---------------------------------------------------------------------------
(* The inputs the calls are tried on.                                      *)

\* Bounds of the input families
MaxExts      == 2      \* extensions appended to a path
MaxNameLen   == 3      \* characters of a name given to parse_pn
MaxVerPieces == 2      \* pieces appended to the number of a version
MaxDirs      == 0      \* directories between host and file name of a URI

\* suf_matches is a dict; the order of its keys() is that of the hash table
\* of the interpreter (with CPython 2 and unrandomised hashes it is _beta,
\* _rc, _pre, _alpha), so a run may see any order, the same for all calls.
KeyOrders ==
    {q \in [1..4 -> Suffixes] : \A i, j \in 1..4 : i # j => q[i] # q[j]}

Ladder == <<SufPre, SufAlpha, SufBeta, SufRc>>

ExtTokens ==
    { <<".","z","i","p">>,
      <<".","t","g","z">>,
      <<".","t","a","r",".","g","z">>,
      <<".","t","a","r",".","b","z","2">>,
      <<".","t","b","z","2">>,
      <<".","g","z">>,
      <<".","t","x","t">> }
PathStems ==
    { <<"/","d","/","f">>,
      <<"f","-","1",".","0">> }
Paths == {st \o Concat(q) : st \in PathStems, q \in SeqsUpTo(ExtTokens, MaxExts)}

NameAlphabet == {"T", "e", "1", "-", ".", " "}
\* The names of the docstring of parse_pn, and names of several words
DocNames ==
    { <<"T","e","s","t","-","M","e">>,
      <<"t","e","s","t",".","m","e">>,
      <<"a","-","b",".","c">>,
      <<"a","-","b"," ","c">> }
Names == SeqsUpTo(NameAlphabet, MaxNameLen) \cup DocNames
PriorRules ==
    { <<>>, << <<"O","l","d">> >> }
VerMajors ==
    { <<"1",".","0">>,
      <<"1","_","b","e","t","a">> }
VerTokens ==
    { <<"a">>,
      <<"b">>,
      <<"c">>,
      <<"b","e","t","a">>,
      <<"r","c">>,
      <<"p","r","e">>,
      <<"d","e","v">>,
      <<"r">>,
      <<"-">>,
      <<"1">> }
DocVersions ==
    { <<"1",".","0","a","1">>,
      <<"1",".","0","-","a","1">>,
      <<"1",".","0","b","1">>,
      <<"1",".","0","-","b","1">>,
      <<"1",".","0","b","2">>,
      <<"1",".","0","-","r","1","2","3","4">>,
      <<"1",".","0","d","e","v","-","r","1","2","3","4">>,
      <<"1",".","0",".","d","e","v","-","r","1","2","3","4">>,
      <<"1",".","0","d","e","v","-","2","0","0","9","1","1","1","8">>,
      <<"1",".","0","a","l","p","h","a","1">>,
      <<"1",".","0","b","e","t","a","1">>,
      <<"1",".","0","r","c","1">>,
      <<"1",".","0","R","C","-","2">>,
      <<"1",".","0","f","i","n","a","l">>,
      <<"1",".","0","p","a","t","c","h","3">> }
Versions ==
    {m \o Concat(q) : m \in VerMajors, q \in SeqsUpTo(VerTokens, MaxVerPieces)}
        \cup DocVersions
PvName      == <<"f","o","o",".","b","a","r">>
PvNameUpper == <<"F","o","o">>

\* parse_pv is called with the defaults of line 165 for pn, pv, my_pn, my_pv
\* and, for the versions of the docstring, with a pv and rules of the caller.
PvCalls ==
    {[up_pn |-> PvName, up_pv |-> v, pn |-> <<>>, pv |-> <<>>,
      my_pn |-> <<>>, my_pv |-> <<>>] : v \in Versions}
    \cup
    {[up_pn |-> PvNameUpper, up_pv |-> v, pn |-> <<>>, pv |-> pv,
      my_pn |-> r, my_pv |-> r] :
        v \in DocVersions \cup VerMajors, pv \in {<<>>, <<"2">>}, r \in PriorRules}

\* URIs: scheme and host, directories, file name, extension, query
UriEnds ==
    { [host |-> <<"h","t","t","p",":","/","/","h","/">>, query |-> <<>>],
      [host |-> <<"h","t","t","p",":","/","/","h","/">>, query |-> <<"?","m","=","1">>],
      [host |-> <<"h","t","t","p","s",":","/","/","h","/">>, query |-> <<>>] }
UriDir == <<"f","o","o","-","1",".","0","/">>
FileStems ==
    { <<"f","o","o","-","1",".","0">>,
      <<"F","o","o","-","1",".","0">>,
      <<"p","k","g",".","f","o","o","-","1",".","0","b","1">>,
      <<"f","o","o","_","1",".","0">>,
      <<"f","o","o","-","1",".","0","_","b","e","t","a","1">>,
      <<"p","k","g","-","f","o","o","-","1",".","0">> }
UriExt == <<".","t","g","z">>

RECURSIVE Dirs(_)
Dirs(k) == IF k = 0 THEN <<>> ELSE UriDir \o Dirs(k - 1)

Uris ==
    {e.host \o Dirs(k) \o f \o UriExt \o e.query :
        e \in UriEnds, k \in 0..MaxDirs, f \in FileStems}

\* Upstream name and version as the package index gives them
Upstreams ==
    { [up_pn |-> <<"f","o","o">>, up_pv |-> <<"1",".","0">>],
      [up_pn |-> <<"F","o","o">>, up_pv |-> <<"1",".","0">>],
      [up_pn |-> <<"p","k","g",".","f","o","o">>, up_pv |-> <<"1",".","0","b","1">>],
      [up_pn |-> <<"p","k","g","-","f","o","o">>, up_pv |-> <<"1",".","0">>],
      [up_pn |-> <<"f","o","o">>, up_pv |-> <<"1",".","0","b","1">>],
      [up_pn |-> <<".">>, up_pv |-> <<"1",".","0">>] }

\* pn and pv given by the caller (the command line), or left empty
Overrides ==
    { [pn |-> <<>>, pv |-> <<>>],
      [pn |-> <<"b","a","r">>, pv |-> <<>>],
      [pn |-> <<>>, pv |-> <<"2",".","0">>] }

\* A call overrides pn or pv, or passes rule lists, or does neither
GetVarsCalls ==
    {[uri |-> u, up_pn |-> up.up_pn, up_pv |-> up.up_pv, pn |-> o.pn,
      pv |-> o.pv, my_pn |-> <<>>, my_pv |-> <<>>] :
        u \in Uris, up \in Upstreams, o \in Overrides}
    \cup
    {[uri |-> u, up_pn |-> up.up_pn, up_pv |-> up.up_pv, pn |-> <<>>,
      pv |-> <<>>, my_pn |-> r, my_pv |-> r] :
        u \in Uris, up \in Upstreams, r \in PriorRules}

\* A caller that holds two lists and passes them to a call, then to the
\* same call again: the names, versions and URIs it calls with
CallerNames ==
    DocNames \cup { <<"f","o","o">>, <<"F","o","o">> }
CallerVersions ==
    { <<"1",".","0">>,
      <<"1",".","0","b","1">>,
      <<"1",".","0","-","r","1","2","3","4">>,
      <<"1",".","0","f","i","n","a","l">> }
CallerPvCalls ==
    {[up_pn |-> n, up_pv |-> v, pn |-> <<>>, pv |-> <<>>,
      my_pn |-> r, my_pv |-> q] :
        n \in {PvName, PvNameUpper, <<"f","o","o">>}, v \in CallerVersions,
        r \in PriorRules, q \in PriorRules}
CallerUris ==
    {<<"h","t","t","p",":","/","/","h","/">> \o f \o UriExt : f \in FileStems}
CallerVarsCalls ==
    {[uri |-> u, up_pn |-> up.up_pn, up_pv |-> up.up_pv, pn |-> <<>>,
      pv |-> <<>>, my_pn |-> r, my_pv |-> q] :
        u \in CallerUris, up \in Upstreams, r \in PriorRules, q \in PriorRules}

---------------------------------------------------------------------------
(* The state machine: one action per call of a classmethod; parse_pv, the  *)
(* one with loops the claims speak of, runs step by step.                  *)

NoArgs == [none |-> TRUE]
NoRet  == [none |-> TRUE]
\* The caller holds no lists and no result
NoLists == [my_pn |-> <<>>, my_pv |-> <<>>, first |-> NoRet]
LocIdle == [up_pv |-> <<>>, pv |-> <<>>, additional_version |-> <<>>,
            my_pv |-> <<>>, ki |-> 0, vi |-> 0,
            rs |-> [m |-> NoMatch, suf |-> <<>>]]

Init ==
    /\ keys \in KeyOrders
    /\ op = "none"
    /\ args = NoArgs
    /\ ret = NoRet
    /\ pc = "idle"
    /\ loc = LocIdle
    /\ tried = <<>>
    /\ caller = NoLists

\* strip_ext(path), lines 83-87.  depth counts the applications in a row:
\* the caller passes a fresh path (depth 1) or what the last call returned.
\* A call starts when the caller holds no earlier result (op = "none").
CallStripExt(path) ==
    /\ op = "none"
    /\ op' = "strip_ext"
    /\ args' = [orig |-> path, path |-> path, depth |-> 1]
    /\ ret' = [out |-> strip_ext(path)]
    /\ UNCHANGED <<keys, pc, loc, tried, caller>>

CallStripExtAgain ==
    /\ pc = "idle"
    /\ op = "strip_ext"
    /\ args.depth = 1
    /\ args' = [orig |-> args.orig, path |-> ret.out, depth |-> 2]
    /\ ret' = [out |-> strip_ext(ret.out)]
    /\ UNCHANGED <<keys, op, pc, loc, tried, caller>>

\* parse_pn(pn, my_pn), lines 318-343; the caller's list is appended to at
\* lines 322, 328 and 333
CallParsePn(pn, my_pn) ==
    /\ op = "none"
    /\ op' = "parse_pn"
    /\ args' = [pn |-> pn, my_pn |-> my_pn]
    /\ ret' = parse_pn(pn, my_pn)
    /\ caller' = [my_pn |-> HeldAfter(my_pn, parse_pn(pn, my_pn).my_pn),
                  my_pv |-> <<>>, first |-> NoRet]
    /\ UNCHANGED <<keys, pc, loc, tried>>

\* The caller calls parse_pn once more, with the same pn and the same list
CallParsePnAgain ==
    /\ op = "parse_pn"
    /\ caller.first = NoRet
    /\ args' = [args EXCEPT !.my_pn = caller.my_pn]
    /\ ret' = parse_pn(args.pn, caller.my_pn)
    /\ caller' = [caller EXCEPT
                    !.my_pn = HeldAfter(caller.my_pn, parse_pn(args.pn, caller.my_pn).my_pn),
                    !.first = ret]
    /\ UNCHANGED <<keys, op, pc, loc, tried>>

\* The locals of parse_pv where the loops begin (line 266)
PvEnter(a) ==
    LET l == PvRevision(a.up_pv, a.pv, a.my_pv)
    IN  [up_pv |-> l.up_pv, pv |-> l.pv,
         additional_version |-> l.additional_version,
         my_pv |-> l.my_pv, ki |-> 1, vi |-> 1,
         rs |-> [m |-> NoMatch, suf |-> <<>>]]

\* parse_pv entered: lines 249-263, up to the loops; line 261 appends to
\* the caller's my_pv
PvCall(a) ==
    /\ op = "none"
    /\ op' = "parse_pv"
    /\ args' = a
    /\ ret' = NoRet
    /\ loc' = PvEnter(a)
    /\ tried' = <<>>
    /\ pc' = "loop"
    /\ caller' = [my_pn |-> a.my_pn,
                  my_pv |-> HeldAfter(a.my_pv, PvEnter(a).my_pv),
                  first |-> NoRet]
    /\ UNCHANGED keys

\* The caller calls parse_pv once more, with the same strings and the same
\* two lists
PvCallAgain ==
    /\ op = "parse_pv"
    /\ pc = "idle"
    /\ caller.first = NoRet
    /\ LET a == [args EXCEPT !.my_pn = caller.my_pn, !.my_pv = caller.my_pv]
       IN  /\ args' = a
           /\ loc' = PvEnter(a)
           /\ caller' = [caller EXCEPT
                           !.my_pv = HeldAfter(a.my_pv, PvEnter(a).my_pv),
                           !.first = ret]
    /\ ret' = NoRet
    /\ tried' = <<>>
    /\ pc' = "loop"
    /\ UNCHANGED <<keys, op>>

\* One pass of the inner loop, lines 269-275: regex vi of suffix keys[ki] is
\* tried on up_pv.  A match ends both loops (lines 275 and 267-268); without
\* one the next regex, or the next key, is due; after the last the loops end.
PvTry ==
    /\ pc = "loop"
    /\ LET this_suf == keys[loc.ki]
           m == ReMatch(suf_matches(this_suf)[loc.vi], loc.up_pv)
           lastv == loc.vi = Len(suf_matches(this_suf))
           lastk == loc.ki = Len(keys)
       IN  /\ tried' = Append(tried, <<this_suf, loc.vi>>)
           /\ loc' = IF m.ok
                     THEN [loc EXCEPT !.rs = [m |-> m, suf |-> this_suf]]
                     ELSE IF lastv
                          THEN [loc EXCEPT !.ki = loc.ki + 1, !.vi = 1]
                          ELSE [loc EXCEPT !.vi = loc.vi + 1]
           /\ pc' = IF m.ok \/ (lastv /\ lastk) THEN "compose" ELSE "loop"
    /\ UNCHANGED <<keys, op, args, ret, caller>>

\* Lines 277-297: the version composed, the name parsed, the tuple returned;
\* lines 283 and 290 append to the caller's my_pv, parse_pn to its my_pn
PvReturn ==
    /\ pc = "compose"
    /\ LET v == PvCompose(loc, loc.rs)
           n == parse_pn(args.up_pn, args.my_pn)
       IN  /\ ret' = [pn |-> n.pn, pv |-> v.pv, my_pn |-> n.my_pn, my_pv |-> v.my_pv]
           /\ caller' = [caller EXCEPT
                           !.my_pn = HeldAfter(args.my_pn, n.my_pn),
                           !.my_pv = HeldAfter(args.my_pv, v.my_pv)]
    /\ pc' = "idle"
    /\ UNCHANGED <<keys, op, args, loc, tried>>

\* The caller is done with what a call returned; the next call may follow.
\* Nothing of a call outlives it: the class keeps no state.
Forget ==
    /\ pc = "idle"
    /\ op # "none"
    /\ op' = "none"
    /\ args' = NoArgs
    /\ ret' = NoRet
    /\ loc' = LocIdle
    /\ tried' = <<>>
    /\ caller' = NoLists
    /\ UNCHANGED <<keys, pc>>

\* The caller's two lists after get_vars was called with a
GetVarsHeld(a) ==
    [my_pn |-> HeldAfter(a.my_pn,
          get_vars_lists(keys, a.uri, a.up_pn, a.up_pv, a.pn, a.pv, a.my_pn, a.my_pv).my_pn),
     my_pv |-> HeldAfter(a.my_pv,
          get_vars_lists(keys, a.uri, a.up_pn, a.up_pv, a.pn, a.pv, a.my_pn, a.my_pv).my_pv)]

\* get_vars(uri, up_pn, up_pv, pn, pv, my_pn, my_pv), lines 448-536
CallGetVars(a) ==
    /\ op = "none"
    /\ op' = "get_vars"
    /\ args' = a
    /\ ret' = get_vars(keys, a.uri, a.up_pn, a.up_pv, a.pn, a.pv, a.my_pn, a.my_pv)
    /\ caller' = [my_pn |-> GetVarsHeld(a).my_pn, my_pv |-> GetVarsHeld(a).my_pv,
                  first |-> NoRet]
    /\ UNCHANGED <<keys, pc, loc, tried>>

\* The caller calls get_vars once more, with the same strings and the same
\* two lists
CallGetVarsAgain ==
    /\ op = "get_vars"
    /\ caller.first = NoRet
    /\ LET a == [args EXCEPT !.my_pn = caller.my_pn, !.my_pv = caller.my_pv]
       IN  /\ args' = a
           /\ ret' = get_vars(keys, a.uri, a.up_pn, a.up_pv, a.pn, a.pv, a.my_pn, a.my_pv)
           /\ caller' = [my_pn |-> GetVarsHeld(a).my_pn,
                         my_pv |-> GetVarsHeld(a).my_pv, first |-> ret]
    /\ UNCHANGED <<keys, op, pc, loc, tried>>

NextExt ==
    \/ \E path \in Paths : CallStripExt(path)
    \/ CallStripExtAgain
    \/ Forget
NextPn ==
    \/ \E pn \in Names, my_pn \in PriorRules : CallParsePn(pn, my_pn)
    \/ Forget
NextPv ==
    \/ \E a \in PvCalls : PvCall(a)
    \/ PvTry
    \/ PvReturn
    \/ Forget

NextVars ==
    \/ \E a \in GetVarsCalls : CallGetVars(a)
    \/ Forget

\* A caller that repeats its call with the lists it holds
NextCaller ==
    \/ \E pn \in CallerNames, my_pn \in PriorRules : CallParsePn(pn, my_pn)
    \/ CallParsePnAgain
    \/ \E a \in CallerPvCalls : PvCall(a)
    \/ PvCallAgain
    \/ PvTry
    \/ PvReturn
    \/ \E a \in CallerVarsCalls : CallGetVars(a)
    \/ CallGetVarsAgain
    \/ Forget

SpecExt == Init /\ [][NextExt]_vars
SpecPn  == Init /\ [][NextPn]_vars
SpecPv  == Init /\ [][NextPv]_vars
SpecVars == Init /\ [][NextVars]_vars
SpecCaller == Init /\ [][NextCaller]_vars

\* The step-by-step parse_pv returns what the function parse_pv, which
\* get_vars calls, computes.
PvStepsAgree ==
    (op = "parse_pv" /\ pc = "idle") =>
        ret = parse_pv(keys, args.up_pn, args.up_pv, args.pn, args.pv,
                       args.my_pn, args.my_pv)

---------------------------------------------------------------------------
(* How the shell expands the rules the functions record (bash parameter    *)
(* expansion), for the properties that apply a rule.                       *)

\* ${VAR/old/new}: the first occurrence of old replaced, or every one
ReplaceFirst(s, old, new) ==
    Local(Find(s, old), LAMBDA i :
        IF i < 0 THEN s ELSE Upto(s, i) \o new \o From(s, i + Len(old)))

\* The number a string of decimal digits denotes
RECURSIVE Num(_)
Num(ds) ==
    IF ds = <<>> THEN 0
    ELSE 10 * Num(Upto(ds, Len(ds) - 1)) + (CHOOSE k \in 0..9 : Dec(k) = <<Last(ds)>>)

\* The rules of parse_pn applied in recorded order to the canonical name: a
\* recorded name stands for itself, ${PN/-/.} and ${PN/-/ } put a dot or a
\* space for the first dash (every dash when all holds).
RECURSIVE ApplyNameRules(_, _, _)
ApplyNameRules(name, rules, all) ==
    IF rules = <<>> THEN name
    ELSE LET rule == Head(rules)
             to   == IF rule = PnDotRule THEN <<".">> ELSE <<" ">>
             next == IF rule \notin {PnDotRule, PnSpaceRule} THEN rule
                     ELSE IF all THEN Replace(name, <<"-">>, to)
                     ELSE ReplaceFirst(name, <<"-">>, to)
         IN  ApplyNameRules(next, Tail(rules), all)

PvSubHead   == <<"$","{","P","V","/">>
PvSliceHead == <<"$","{","P","V",":"," ","-">>

\* "${PV/K/replace_me}" applied to pv
ExpandSub(rule, pv) ==
    LET K   == CHOOSE k \in Suffixes : StartsWith(rule, PvSubHead \o k \o <<"/">>)
        rep == SubSeq(rule, Len(PvSubHead) + Len(K) + 2, Len(rule) - 1)
    IN  ReplaceFirst(pv, K, rep)

\* "${PV: -N}rest" applied to pv: the last N characters of pv (none when pv
\* is shorter), then rest
ExpandSlice(rule, pv) ==
    LET d    == Run(rule, Len(PvSliceHead), DigitChars)
        n    == Num(SubSeq(rule, Len(PvSliceHead) + 1, Len(PvSliceHead) + d))
        rest == From(rule, Len(PvSliceHead) + d + 1)
    IN  (IF n > Len(pv) THEN <<>> ELSE From(pv, Len(pv) - n)) \o rest

---------------------------------------------------------------------------
(* The properties.                                                         *)

\* A call of get_vars has returned or raised
VarsDone == op = "get_vars"
\* A call of parse_pv has returned
PvDone == op = "parse_pv" /\ pc = "idle"

\* C1: get_vars either raises GPyPiInvalidAtom and returns no record, or
\* returns a record with p = pn-pv whose atom =dev-python/p the validator
\* accepts; no record with an invalid p is returned.
C1_RaisesOrValidAtom ==
    VarsDone =>
        \/ ret = Raised
        \/ /\ ~ret.raised
           /\ ret.p = ret.pn \o <<"-">> \o ret.pv
           /\ isvalidatom(AtomPrefix \o ret.p)

\* get_vars returned a record after it had to normalise the upstream name
C1_Witness == VarsDone /\ ~ret.raised /\ ret.my_pn # <<>> /\ ret.pn # args.up_pn

\* get_vars raised
C1_RaisedReached == VarsDone /\ ret.raised

\* The calls C2 speaks of: the filename is n-v as the splitter splits it, n
\* lower-case without dots or spaces, upstream gives the same n and v, the
\* version is valid and has no -r tail, and the caller overrides nothing.
CleanCall(a) ==
    /\ a.pn = <<>> /\ a.pv = <<>> /\ a.my_pn = <<>> /\ a.my_pv = <<>>
    /\ Local(get_filename(sanitize_uri(a.uri)), LAMBDA filename :
       Local(pkgsplit(filename), LAMBDA parts :
           /\ parts.ok
           /\ filename = parts.pn \o <<"-">> \o parts.pv
           /\ IsLower(parts.pn)
           /\ ~Contains(parts.pn, <<".">>) /\ ~Contains(parts.pn, <<" ">>)
           /\ a.up_pn = parts.pn /\ a.up_pv = parts.pv
           /\ isvalidatom(AtomPrefix \o parts.pn \o <<"-">> \o parts.pv)
           /\ Local(Last(Split(a.up_pv, "-")), LAMBDA seg :
                  ~(seg # <<>> /\ seg[1] = "r"))))

\* C2: on a clean filename n-v get_vars returns pn = n, pv = v, p = n-v,
\* no rules, empty my_p and my_p_raw, and the sanitized URI with the
\* filename replaced by ${P}.
C2_CleanRoundTrip ==
    (VarsDone /\ CleanCall(args)) =>
        ret = [raised |-> FALSE, pn |-> args.up_pn, pv |-> args.up_pv,
               p |-> args.up_pn \o <<"-">> \o args.up_pv,
               my_p |-> <<>>, my_pn |-> <<>>, my_pv |-> <<>>, my_p_raw |-> <<>>,
               src_uri |-> Replace(sanitize_uri(args.uri),
                                   get_filename(sanitize_uri(args.uri)), VarP)]

\* get_vars returned for a clean filename whose URI had a query to drop
C2_Witness ==
    VarsDone /\ CleanCall(args) /\ sanitize_uri(args.uri) # args.uri /\ ~ret.raised

\* C3: for a name given to parse_pn with no prior rules, the returned rules
\* applied in recorded order to the returned name give back the name.
C3_NameRulesInvert ==
    (op = "parse_pn" /\ args.my_pn = <<>>) =>
        \E all \in BOOLEAN : ApplyNameRules(ret.pn, ret.my_pn, all) = args.pn

\* The names of the docstring of parse_pn do come back
C3_DocNamesInvert ==
    (op = "parse_pn" /\ args.my_pn = <<>>
        /\ args.pn \in {<<"T","e","s","t","-","M","e">>, <<"t","e","s","t",".","m","e">>}) =>
        ApplyNameRules(ret.pn, ret.my_pn, FALSE) = args.pn

\* C4: a version without revision suffix that the loops classify as K comes
\* back as major K rev with the one rule ${PV/K/replace_me}, and putting
\* replace_me for the first K of pv gives the upstream version.
C4_SuffixRuleInverts ==
    (PvDone /\ loc.additional_version = <<>> /\ loc.rs.m.ok /\ args.my_pv = <<>>) =>
        /\ ret.pv = loc.rs.m.g1 \o loc.rs.suf \o loc.rs.m.g3
        /\ ret.my_pv = << SufRule(loc.rs.suf, loc.rs.m.g2) >>
        /\ ExpandSub(ret.my_pv[1], ret.pv) = args.up_pv

\* The two versions C4 names come back as it says
C4_DocVersions ==
    /\ (PvDone /\ args.up_pv = <<"1",".","0","b","1">> /\ args.my_pv = <<>>) =>
          /\ ret.pv = <<"1",".","0","_","b","e","t","a","1">>
          /\ ret.my_pv = << SufRule(SufBeta, <<"b">>) >>
    /\ (PvDone /\ args.up_pn = PvName /\ args.up_pv = <<"1",".","0","b","2">>) =>
          ret = [pn |-> <<"f","o","o","-","b","a","r">>,
                 pv |-> <<"1",".","0","_","b","e","t","a","2">>,
                 my_pn |-> <<PnDotRule>>,
                 my_pv |-> << SufRule(SufBeta, <<"b">>) >>]

\* The versions C5 speaks of: major, separators, r or patch or p,
\* separators, digits
RevForm(v) ==
    LET m == LazyMatch(revision_suffixes, v) IN m.ok /\ m.g3 # <<>>

\* C5: for a version with a revision suffix parse_pv returns a pv that ends
\* in "." and the digits, and the ${PV: -N} rule it records, expanded by
\* the shell on that pv, gives the upstream version.
C5_RevisionRuleInverts ==
    (PvDone /\ RevForm(args.up_pv) /\ args.my_pv = <<>>) =>
        /\ EndsWith(ret.pv, <<".">> \o LazyMatch(revision_suffixes, args.up_pv).g3)
        /\ ret.my_pv # <<>>
        /\ StartsWith(ret.my_pv[1], PvSliceHead)
        /\ ExpandSlice(ret.my_pv[1], ret.pv) = args.up_pv

\* x ends in two of the listed extensions in a row
EndsInTwoExts(x) ==
    \E i, j \in DOMAIN valid_extensions :
        EndsWith(x, valid_extensions[i] \o valid_extensions[j])

\* C6 as stated: strip_ext applied to what strip_ext returned changes
\* nothing, for every path.
C6_Idempotent ==
    (op = "strip_ext" /\ args.depth = 2) => ret.out = args.path

\* C6: strip_ext applied to what strip_ext returned changes nothing, for
\* every path that does not end in two of the listed extensions in a row.
C6_IdempotentOneExt ==
    (op = "strip_ext" /\ args.depth = 2 /\ ~EndsInTwoExts(args.orig)) =>
        ret.out = args.path

\* strip_ext was applied twice to a path from which it took one extension
C6_Witness ==
    /\ op = "strip_ext" /\ args.depth = 2
    /\ ~EndsInTwoExts(args.orig)
    /\ args.path # args.orig

\* C7: when the filename equals the composed p, the record has no
\* original-form variables and src_uri holds ${P}.
C7_NoRulesWhenFilenameIsP ==
    (VarsDone /\ ~ret.raised /\ get_filename(sanitize_uri(args.uri)) = ret.p) =>
        /\ ret.my_pn = <<>> /\ ret.my_pv = <<>>
        /\ ret.my_p = <<>> /\ ret.my_p_raw = <<>>
        /\ Contains(ret.src_uri, VarP)

\* C8: the versions of the docstring with a revision marker become _pre.
C8_RevisionBecomesPre ==
    /\ (PvDone /\ args.up_pv \in { <<"1",".","0","-","r","1","2","3","4">>,
                                   <<"1",".","0","d","e","v","-","r","1","2","3","4">>,
                                   <<"1",".","0",".","d","e","v","-","r","1","2","3","4">> }) =>
          ret.pv = <<"1",".","0","_","p","r","e","1","2","3","4">>
    /\ (PvDone /\ args.up_pv = <<"1",".","0","d","e","v","-","2","0","0","9","1","1","1","8">>) =>
          ret.pv = <<"1",".","0","_","p","r","e","2","0","0","9","1","1","1","8">>

\* The one version of C8 that has no "r" does become _pre
C8_DatedDevBecomesPre ==
    (PvDone /\ args.up_pv = <<"1",".","0","d","e","v","-","2","0","0","9","1","1","1","8">>) =>
        ret.pv = <<"1",".","0","_","p","r","e","2","0","0","9","1","1","1","8">>

\* C9: the attempts of a call are, in order, a start of the ladder _pre,
\* _alpha, _beta, _rc with each kind's regexes in listed order; the first
\* attempt that matches is the last one and decides kind and split.
C9_LadderOrder ==
    op = "parse_pv" =>
        /\ Len(tried) <= Len(Attempts(Ladder))
        /\ tried = SubSeq(Attempts(Ladder), 1, Len(tried))
        /\ \A i \in 1..Len(tried) :
              AttemptMatch(tried[i], loc.up_pv).ok =>
                  /\ i = Len(tried)
                  /\ loc.rs = [m |-> AttemptMatch(tried[i], loc.up_pv), suf |-> tried[i][1]]

\* What of C9 does hold: the attempts follow the order of the dict's keys,
\* the same for every call of a run, and stop at the first match.
C9_KeysOrder ==
    op = "parse_pv" =>
        /\ Len(tried) <= Len(Attempts(keys))
        /\ tried = SubSeq(Attempts(keys), 1, Len(tried))
        /\ \A i \in 1..Len(tried) :
              AttemptMatch(tried[i], loc.up_pv).ok =>
                  /\ i = Len(tried)
                  /\ loc.rs = [m |-> AttemptMatch(tried[i], loc.up_pv), suf |-> tried[i][1]]

\* C10: when no pattern matches the version, parse_pv returns up_pv as it
\* is and records no version rule.
C10_RawVersionKept ==
    (PvDone /\ loc.additional_version = <<>> /\ ~loc.rs.m.ok
        /\ ~bad_suffixes(args.up_pv).ok) =>
        /\ ret.pv = args.up_pv
        /\ ret.my_pv = args.my_pv

\* v is a numeric-dot major, then word, then a string of digits
WordVersion(v, word) ==
    Local(Run(v, 0, DigitChars \cup {"."}), LAMBDA i :
        /\ i > 0 /\ v[1] \in DigitChars
        /\ StartsWith(From(v, i), word)
        /\ \A k \in (i + Len(word) + 1)..Len(v) : v[k] \in DigitChars)

\* v with the word of WordVersion replaced by the suffix kind
WordAsKind(v, word, kind) ==
    Local(Run(v, 0, DigitChars \cup {"."}), LAMBDA i :
        Upto(v, i) \o kind \o From(v, i + Len(word)))

FullWords ==
    { [word |-> <<"b","e","t","a">>, kind |-> SufBeta],
      [word |-> <<"a","l","p","h","a">>, kind |-> SufAlpha],
      [word |-> <<"r","c">>, kind |-> SufRc] }

\* C11: with the kinds tried in the ladder order, a version M word N whose
\* word is beta, alpha or rc comes back as M _beta N, M _alpha N, M _rc N.
C11_FullWordOwnKind ==
    \A w \in FullWords :
        (PvDone /\ keys = Ladder /\ WordVersion(args.up_pv, w.word)) =>
            ret.pv = WordAsKind(args.up_pv, w.word, w.kind)

\* What of C11 does hold in the ladder order: alpha and rc keep their kind
C11_AlphaRcOwnKind ==
    \A w \in FullWords :
        (PvDone /\ keys = Ladder /\ w.kind # SufBeta
            /\ WordVersion(args.up_pv, w.word)) =>
            ret.pv = WordAsKind(args.up_pv, w.word, w.kind)

\* In the ladder order the bare a of _alpha takes the a of beta
C11_BetaTakenByAlpha ==
    (PvDone /\ keys = Ladder /\ WordVersion(args.up_pv, <<"b","e","t","a">>)) =>
        /\ loc.rs.suf = SufAlpha
        /\ ret.pv = Local(Run(args.up_pv, 0, DigitChars \cup {"."}), LAMBDA i :
               Upto(args.up_pv, i + 3) \o SufAlpha \o From(args.up_pv, i + 4))

\* beta keeps its kind when the dict gives _beta before _alpha
C11_BetaWhenBetaFirst ==
    (PvDone /\ WordVersion(args.up_pv, <<"b","e","t","a">>)
        /\ \E i, j \in 1..4 : i < j /\ keys[i] = SufBeta /\ keys[j] = SufAlpha) =>
        ret.pv = WordAsKind(args.up_pv, <<"b","e","t","a">>, SufBeta)

\* A call of parse_pn, parse_pv or get_vars has returned (or raised)
CallDone == op \in {"parse_pn", "parse_pv", "get_vars"} /\ pc = "idle"
\* The caller has made its second call and it is done
SecondDone == CallDone /\ caller.first # NoRet

\* C12: a call leaves the lists the caller passed as my_pn and my_pv as
\* they were when it was made, and the second of two calls with the same
\* arguments returns what the first returned.
C12_NoSharedMutation ==
    /\ CallDone => caller.my_pn = args.my_pn
    /\ (CallDone /\ op # "parse_pn") => caller.my_pv = args.my_pv
    /\ SecondDone => ret = caller.first

\* What of C12 does hold: lists passed empty stay empty, and calls that
\* pass only empty lists repeat their result
C12_EmptyListsKept ==
    /\ (CallDone /\ args.my_pn = <<>>) => caller.my_pn = <<>>
    /\ (CallDone /\ op # "parse_pn" /\ args.my_pv = <<>>) => caller.my_pv = <<>>
    /\ (SecondDone /\ args.my_pn = <<>> /\ (op = "parse_pn" \/ args.my_pv = <<>>)) =>
          ret = caller.first

\* Each of the three functions has changed a list of its caller
C12_ParsePnAppends == CallDone /\ op = "parse_pn" /\ caller.my_pn # args.my_pn
C12_ParsePvAppends ==
    CallDone /\ op = "parse_pv" /\ caller.my_pn # args.my_pn /\ caller.my_pv # args.my_pv
C12_GetVarsAppends ==
    CallDone /\ op = "get_vars" /\ caller.my_pn # args.my_pn /\ caller.my_pv # args.my_pv

\* Each of the three functions has returned something else the second time
C12_ParsePnDiffers == SecondDone /\ op = "parse_pn" /\ ret # caller.first
C12_ParsePvDiffers == SecondDone /\ op = "parse_pv" /\ ret # caller.first
C12_GetVarsDiffers == SecondDone /\ op = "get_vars" /\ ret # caller.first

\* The record returned has ${P} in its src_uri
HasVarP == VarsDone /\ ~ret.raised /\ Contains(ret.src_uri, VarP)

\* C13: when the src_uri returned holds ${P}, the filename of the
\* sanitized URI is the p returned, and p put for ${P} gives that URI.
C13_PlaceholderSound ==
    HasVarP =>
        /\ get_filename(sanitize_uri(args.uri)) = ret.p
        /\ Replace(ret.src_uri, VarP, ret.p) = sanitize_uri(args.uri)

\* What of C13 does hold: the ${P} that line 514 writes, when the filename
\* is p, is sound
C13_SoundWhenFilenameIsP ==
    (VarsDone /\ ~ret.raised /\ get_filename(sanitize_uri(args.uri)) = ret.p) =>
        /\ Contains(ret.src_uri, VarP)
        /\ Replace(ret.src_uri, VarP, ret.p) = sanitize_uri(args.uri)

\* get_vars wrote ${P} for a good filename that is not p, under an
\* override of pn or of pv
C13_OverrideReached ==
    /\ HasVarP
    /\ args.pn # <<>> \/ args.pv # <<>>
    /\ is_good_filename(sanitize_uri(args.uri)).ok
    /\ get_filename(sanitize_uri(args.uri)) # ret.p

===========================================================================
